---- MODULE Spec2Model ----
(***************************************************************************)
(* Model of the httpupgrade client dialer (dialer.go): dialhttpUpgrade,    *)
(* the request-target encoding, and ConnRF.Read, the connection wrapper    *)
(* that validates the "101 Switching Protocols" response on its first Read. *)
(*                                                                         *)
(* Strings the code takes apart (the path, header values) are sequences of *)
(* one-character strings; strings it only compares are TLA+ strings.       *)
(* Bytes on the wire are tokens: "h" a response-header byte, "r" and "n"   *)
(* the CR and LF that end a line, and "p1", "p2", ... the payload bytes the  *)
(* server sends after the header terminator.                               *)
(***************************************************************************)
EXTENDS Integers, Sequences, FiniteSets, TLC

\* ------------------------------------------------------------------ bounds
MaxPathLen == 4        \* longest configured path explored by SpecPath
MaxPayload == 2        \* payload bytes the server sends after the response
MaxReads == 2          \* Read calls the caller makes on a returned connection
MaxWrites == 1         \* Write calls the caller makes on a returned connection
MaxHeaders == 2        \* most headers a configuration explored by SpecHeader has

\* ------------------------------------------------------- program constants
minReadBufferSize == 16   \* bufio.NewReaderSize never makes a smaller buffer

\* ---------------------------------------------------------- string helpers
\* strings.TrimPrefix(s, "/")
TrimPrefix(s) ==
    IF Len(s) > 0 /\ s[1] = "/" THEN Tail(s) ELSE s

\* index of the first occurrence of character c in s, 0 if none
RECURSIVE IndexFrom(_, _, _)
IndexFrom(s, c, i) ==
    IF i > Len(s) THEN 0
    ELSE IF s[i] = c THEN i
    ELSE IndexFrom(s, c, i + 1)

Index(s, c) == IndexFrom(s, c, 1)

\* strings.Replace(s, " ", ":", 1): only the first space is replaced
ReplaceFirstSpace(s) ==
    LET i == Index(s, " ")
    IN  IF i = 0 THEN s ELSE [s EXCEPT ![i] = ":"]

\* strings.Split(s, ":"): always at least one part, empty parts kept
RECURSIVE Split(_)
Split(s) ==
    LET i == Index(s, ":")
    IN  IF i = 0 THEN <<s>>
        ELSE <<SubSeq(s, 1, i - 1)>> \o Split(SubSeq(s, i + 1, Len(s)))

\* the hexadecimal digits of the path alphabet and the byte two of them name
HexDigits == {"0", "2"}

Unhex(hi, lo) ==
    CASE hi = "2" /\ lo = "0" -> " "
      [] hi = "2" /\ lo = "2" -> "\""
      [] hi = "0" /\ lo = "0" -> "NUL"
      [] hi = "0" /\ lo = "2" -> "STX"

\* url.QueryUnescape's first pass: every '%' is followed by two hex digits
RECURSIVE EscapesOk(_, _)
EscapesOk(s, i) ==
    IF i > Len(s) THEN TRUE
    ELSE IF s[i] = "%"
         THEN /\ i + 2 <= Len(s)
              /\ s[i + 1] \in HexDigits
              /\ s[i + 2] \in HexDigits
              /\ EscapesOk(s, i + 3)
         ELSE EscapesOk(s, i + 1)

\* url.QueryUnescape's second pass: %XX becomes the byte, '+' becomes ' '
RECURSIVE Decode(_, _)
Decode(s, i) ==
    IF i > Len(s) THEN <<>>
    ELSE IF s[i] = "%" THEN <<Unhex(s[i + 1], s[i + 2])>> \o Decode(s, i + 3)
    ELSE IF s[i] = "+" THEN <<" ">> \o Decode(s, i + 1)
    ELSE <<s[i]>> \o Decode(s, i + 1)

\* url.QueryUnescape(s) with its error dropped: "" when an escape is malformed
QueryUnescape(s) ==
    IF EscapesOk(s, 1) THEN Decode(s, 1) ELSE <<>>

\* ------------------------------------------------------------ the response
\* bytes of the status line and of one header line on the wire, CR LF included
StatusLineLen == 17
HeaderLineLen == 13

\* the letters, in both cases
Uppers == <<"A", "B", "C", "D", "E", "F", "G", "H", "I", "J", "K", "L", "M",
            "N", "O", "P", "Q", "R", "S", "T", "U", "V", "W", "X", "Y", "Z">>
Lowers == <<"a", "b", "c", "d", "e", "f", "g", "h", "i", "j", "k", "l", "m",
            "n", "o", "p", "q", "r", "s", "t", "u", "v", "w", "x", "y", "z">>

\* strings.ToLower, letter by letter
LowerChar(c) ==
    IF \E i \in DOMAIN Uppers : Uppers[i] = c
    THEN Lowers[CHOOSE i \in DOMAIN Uppers : Uppers[i] = c]
    ELSE c

UpperChar(c) ==
    IF \E i \in DOMAIN Lowers : Lowers[i] = c
    THEN Uppers[CHOOSE i \in DOMAIN Lowers : Lowers[i] = c]
    ELSE c

ToLower(s) == [i \in 1..Len(s) |-> LowerChar(s[i])]

\* textproto.CanonicalMIMEHeaderKey on the header keys a response carries
CanonicalKey(k) ==
    CASE k \in {"upgrade", "UPGRADE", "Upgrade"} -> "Upgrade"
      [] k \in {"connection", "CONNECTION", "Connection"} -> "Connection"
      [] OTHER -> k

\* http.Header.Get: the first value stored under the canonical key, else ""
RECURSIVE HeaderGet(_, _)
HeaderGet(hdrs, key) ==
    IF hdrs = <<>> THEN <<>>
    ELSE IF CanonicalKey(hdrs[1][1]) = CanonicalKey(key) THEN hdrs[1][2]
    ELSE HeaderGet(Tail(hdrs), key)

websocket == <<"w", "e", "b", "s", "o", "c", "k", "e", "t">>
upgrade == <<"u", "p", "g", "r", "a", "d", "e">>

\* the responses a server may send: wellformed says whether http.ReadResponse
\* can parse the status line
Responses ==
    { [wellformed |-> TRUE, Status |-> "101 Switching Protocols",
       Header |-> << <<"Upgrade", websocket>>,
                     <<"connection", <<"U", "p", "g", "r", "a", "d", "e">> >> >>],
      [wellformed |-> TRUE, Status |-> "200 OK",
       Header |-> << <<"Upgrade", websocket>>, <<"Connection", upgrade>> >>],
      [wellformed |-> TRUE, Status |-> "101 Switching Protocols",
       Header |-> << <<"Connection", upgrade>> >>],
      [wellformed |-> TRUE, Status |-> "101 Switching Protocols",
       Header |-> << <<"Content-Length", <<"5">> >>,
                     <<"UPGRADE", <<"W", "e", "b", "S", "o", "c", "k", "e", "t">> >>,
                     <<"Connection", upgrade>> >>],
      [wellformed |-> TRUE, Status |-> "101 switching protocols",
       Header |-> << <<"Upgrade", websocket>>, <<"Connection", upgrade>> >>],
      [wellformed |-> FALSE, Status |-> "", Header |-> <<>>] }

\* Recognized with the header values compared as they are, not lowercased
RecognizedExactCase(r) ==
    /\ r.Status = "101 Switching Protocols"
    /\ HeaderGet(r.Header, "Upgrade") = websocket
    /\ HeaderGet(r.Header, "Connection") = upgrade

\* the condition of dialer.go:34-36, negated: the reply is recognized
Recognized(r) ==
    /\ r.Status = "101 Switching Protocols"
    /\ ToLower(HeaderGet(r.Header, "Upgrade")) = websocket
    /\ ToLower(HeaderGet(r.Header, "Connection")) = upgrade

\* one line of n bytes on the wire: n - 2 header bytes, CR, LF
Line(n) == [i \in 1..n |-> IF i = n THEN "n" ELSE IF i = n - 1 THEN "r" ELSE "h"]

RECURSIVE HeaderLines(_)
HeaderLines(hdrs) ==
    IF hdrs = <<>> THEN <<>> ELSE Line(HeaderLineLen) \o HeaderLines(Tail(hdrs))

\* the bytes of the response up to and including the blank line
HeaderBytes(r) == Line(StatusLineLen) \o HeaderLines(r.Header) \o Line(2)

\* the payload bytes, each one distinct so that order and loss are visible
PayloadBytes == <<"p1", "p2", "p3", "p4", "p5">>

Payload == SubSeq(PayloadBytes, 1, MaxPayload)

\* everything the server sends: the response, then the payload
Stream(r) == HeaderBytes(r) \o Payload

\* ------------------------------------------------------ the request headers
\* textproto.CanonicalMIMEHeaderKey: the first letter and every letter after
\* a hyphen in upper case, every other letter in lower case
CanonicalMIMEHeaderKey(k) ==
    [i \in 1..Len(k) |-> IF i = 1 \/ k[i - 1] = "-" THEN UpperChar(k[i])
                                                    ELSE LowerChar(k[i])]

\* an http.Header is a map from keys to the list of their values
\* http.Header.Add: the value is appended under the canonical form of the key
HeaderAdd(h, key, value) ==
    LET ck == CanonicalMIMEHeaderKey(key)
    IN  [x \in DOMAIN h \cup {ck} |->
            IF x = ck THEN (IF ck \in DOMAIN h THEN Append(h[ck], value)
                                               ELSE <<value>>)
            ELSE h[x]]

\* HeaderSet that keeps the values a key already has
HeaderSetIfAbsent(h, key, value) ==
    LET ck == CanonicalMIMEHeaderKey(key)
    IN  [x \in DOMAIN h \cup {ck} |->
            IF x = ck /\ ck \notin DOMAIN h THEN <<value>> ELSE h[x]]

\* http.Header.Set: the value replaces whatever the canonical key held
HeaderSet(h, key, value) ==
    LET ck == CanonicalMIMEHeaderKey(key)
    IN  [x \in DOMAIN h \cup {ck} |-> IF x = ck THEN <<value>> ELSE h[x]]

\* the header keys a configuration may hold
HeaderKeys ==
    { <<"W", "e", "b", "S", "o", "c", "k", "e", "t", "-", "T", "e", "s", "t">>,
      <<"W", "e", "b", "s", "o", "c", "k", "e", "t", "-", "T", "e", "s", "t">>,
      <<"c", "o", "n", "n", "e", "c", "t", "i", "o", "n">>,
      <<"C", "o", "n", "n", "e", "c", "t", "i", "o", "n">>,
      <<"U", "P", "G", "R", "A", "D", "E">> }

\* the value configured for a key: its own, so that headers can be told apart
HeaderValue(k) ==
    CASE k[1] = "W" /\ k[4] = "S" -> <<"o", "n", "e">>
      [] k[1] = "W" /\ k[4] = "s" -> <<"t", "w", "o">>
      [] k[1] = "c" -> <<"c", "l", "o", "s", "e">>
      [] k[1] = "C" -> <<"k", "e", "e", "p">>
      [] OTHER -> <<"h", "2", "c">>

\* transportConfiguration.Header: a map of at most MaxHeaders keys
HeaderConfigs ==
    { [k \in K |-> HeaderValue(k)] :
        K \in {S \in SUBSET HeaderKeys : Cardinality(S) <= MaxHeaders} }

\* the headers the connection-level specification dials with
SomeHeaders ==
    { [k \in {<<"W", "e", "b", "S", "o", "c", "k", "e", "t", "-", "T", "e", "s", "t">>}
         |-> HeaderValue(k)] }

\* the orders in which a range loop may visit the keys of a map
Orders(S) ==
    { o \in [1..Cardinality(S) -> S] :
        \A i, j \in 1..Cardinality(S) : o[i] = o[j] => i = j }

\* ------------------------------------------------------------------- state
VARIABLES
    path,        \* transportConfiguration.GetNormalizedPath()
    header,      \* transportConfiguration.Header
    ed,          \* transportConfiguration.Ed != 0: early-data mode
    tlsMode,     \* "none", "tls" (plain wrap) or "utls" (fingerprinted wrap)
    resp,        \* the response the server answers with
    pc,          \* where dialhttpUpgrade is, or how it ended
    err,         \* the error dialhttpUpgrade returned, "" if none
    conn,        \* the connection dial works on: pconn, its wrap, handshake
    url,         \* requestURL: Scheme, Path, Opaque
    reqHeader,   \* req.Header
    out,         \* what has been written to the connection, in order
    First,       \* connRF.First
    sent,        \* how many bytes of Stream(resp) the server has sent
    wire,        \* bytes sent by the server and not yet read off the connection
    rd,          \* the validating Read in progress: its buffer and bufio reader
    lastRet,     \* what the last completed Read returned: n, err, data
    connRet,     \* what the connection returned to the last pass-through Read
    delivered,   \* the bytes the caller's Reads have returned, in order
    outcome,     \* how validation ended: "none", "ok", "parse", "unrecognized"
    validations, \* how many times a Read has parsed a response
    together,    \* the whole stream had arrived when the validating Read began
    calls,       \* Read calls the caller has made
    writes       \* Write calls the caller has made

vars == <<path, header, ed, tlsMode, resp, pc, err, conn, url, reqHeader, out,
          First, sent, wire, rd, lastRet, connRet, delivered, outcome,
          validations, together, calls, writes>>

cfgVars == <<path, header, ed, tlsMode, resp>>
reqVars == <<url, reqHeader>>
connVars == <<First, sent, wire, rd, lastRet, connRet, delivered, outcome,
              validations, together, calls, writes>>

NoRead == [active |-> FALSE]
NoRet == [len |-> 0, n |-> 0, err |-> "", data |-> <<>>]

\* the characters configured paths are made of
PathChars == {"/", " ", ":", "a", "+", "%", "2", "0"}

RECURSIVE SeqsUpTo(_, _)
SeqsUpTo(S, n) ==
    IF n = 0 THEN {<<>>}
    ELSE LET shorter == SeqsUpTo(S, n - 1)
         IN  shorter \cup {Append(s, c) : s \in {t \in shorter : Len(t) = n - 1}, c \in S}

AllPaths == SeqsUpTo(PathChars, MaxPathLen)

\* the paths the connection-level specification dials with
SomePaths == {<<"/", "a", " ", "a">>}

\* no connection yet: pconn is "none", "open" or "closed", wrap is what the
\* variable conn holds ("nil", "raw", "tls", "utls")
NoConn == [pconn |-> "none", wrap |-> "nil", handshaken |-> FALSE]

InitWith(paths, headers) ==
    /\ path \in paths
    /\ header \in headers
    /\ ed \in BOOLEAN
    /\ tlsMode \in {"none", "tls", "utls"}
    /\ resp \in Responses
    /\ pc = "start"
    /\ err = ""
    /\ conn = NoConn
    /\ url = [Scheme |-> "", Host |-> "", Path |-> <<>>, Opaque |-> <<>>]
    /\ reqHeader = <<>>
    /\ out = <<>>
    /\ First = FALSE
    /\ sent = 0
    /\ wire = <<>>
    /\ rd = NoRead
    /\ lastRet = NoRet
    /\ connRet = NoRet
    /\ delivered = <<>>
    /\ outcome = "none"
    /\ validations = 0
    /\ together = FALSE
    /\ calls = 0
    /\ writes = 0

Init == InitWith(SomePaths, SomeHeaders)

Min(a, b) == IF a < b THEN a ELSE b
Max(a, b) == IF a > b THEN a ELSE b

\* ------------------------------------------------------- dialhttpUpgrade
\* internet.DialSystem: the raw connection, or an error and no connection
DialSystem ==
    /\ pc = "start"
    /\ \/ pc' = "dialed" /\ err' = err /\ conn' = [conn EXCEPT !.pconn = "open"]
       \/ pc' = "failed" /\ err' = "dial" /\ conn' = conn
    /\ UNCHANGED <<cfgVars, reqVars, out, connVars>>

\* AfterHandshake with the handshake's error ignored
AfterHandshakeIgnoringError(ok) == "wrapped"

\* what dial does after WebsocketHandshakeContext: go on, or give up
AfterHandshake(ok) == IF ok THEN "wrapped" ELSE "failed"

\* the TLS branch: a fingerprinted wrap handshakes at once and may fail, a
\* plain wrap handshakes on first I/O, no TLS uses the raw connection
TLSWrap ==
    /\ pc = "dialed"
    /\ \/ /\ tlsMode = "utls"
          /\ \E ok \in BOOLEAN :
               /\ pc' = AfterHandshake(ok)
               /\ err' = IF ok THEN err ELSE "handshake"
               /\ conn' = [conn EXCEPT !.wrap = "utls", !.handshaken = ok]
               /\ url' = IF ok THEN [url EXCEPT !.Scheme = "https"] ELSE url
       \/ /\ tlsMode = "tls"
          /\ pc' = "wrapped" /\ err' = err
          /\ conn' = [conn EXCEPT !.wrap = "tls"]
          /\ url' = [url EXCEPT !.Scheme = "https"]
       \/ /\ tlsMode = "none"
          /\ pc' = "wrapped" /\ err' = err
          /\ conn' = [conn EXCEPT !.wrap = "raw"]
          /\ url' = [url EXCEPT !.Scheme = "http"]
    /\ UNCHANGED <<cfgVars, reqHeader, out, connVars>>

\* EncodePath with the space-replaced string as the opaque component
EncodePathReplaced(p) ==
    LET configured == IF p = <<>> THEN <<"G", "E", "T">> ELSE p
        pathTrimmed == TrimPrefix(QueryUnescape(configured))
        pathReplace == ReplaceFirstSpace(pathTrimmed)
        pathSplited == Split(pathReplace)
    IN  IF Len(pathSplited) = 2
        THEN [Path |-> configured, Opaque |-> pathReplace]
        ELSE IF Len(pathSplited) = 3
        THEN [Path |-> pathSplited[1],
              Opaque |-> pathSplited[2] \o <<":">> \o pathSplited[3]]
        ELSE [Path |-> configured, Opaque |-> <<>>]

\* EncodePath with the third part left out of the opaque component
EncodePathTwoOfThree(p) ==
    LET configured == IF p = <<>> THEN <<"G", "E", "T">> ELSE p
        pathTrimmed == TrimPrefix(QueryUnescape(configured))
        pathSplited == Split(ReplaceFirstSpace(pathTrimmed))
    IN  IF Len(pathSplited) = 2
        THEN [Path |-> configured, Opaque |-> pathTrimmed]
        ELSE IF Len(pathSplited) = 3
        THEN [Path |-> pathSplited[1], Opaque |-> pathSplited[2]]
        ELSE [Path |-> configured, Opaque |-> <<>>]

\* EncodePath with an empty path left empty
EncodePathNoDefault(p) ==
    LET pathTrimmed == TrimPrefix(QueryUnescape(p))
        pathSplited == Split(ReplaceFirstSpace(pathTrimmed))
    IN  IF Len(pathSplited) = 2
        THEN [Path |-> p, Opaque |-> pathTrimmed]
        ELSE IF Len(pathSplited) = 3
        THEN [Path |-> pathSplited[1],
              Opaque |-> pathSplited[2] \o <<":">> \o pathSplited[3]]
        ELSE [Path |-> p, Opaque |-> <<>>]

\* EncodePath with an opaque component set whatever the number of parts
EncodePathOpaqueElse(p) ==
    LET configured == IF p = <<>> THEN <<"G", "E", "T">> ELSE p
        pathTrimmed == TrimPrefix(QueryUnescape(configured))
        pathSplited == Split(ReplaceFirstSpace(pathTrimmed))
    IN  IF Len(pathSplited) = 3
        THEN [Path |-> pathSplited[1],
              Opaque |-> pathSplited[2] \o <<":">> \o pathSplited[3]]
        ELSE [Path |-> configured, Opaque |-> pathTrimmed]

\* the request target: requestURL.Path and requestURL.Opaque for a path
EncodePath(p) ==
    LET configured == IF p = <<>> THEN <<"G", "E", "T">> ELSE p
        pathUnescape == QueryUnescape(configured)
        pathTrimmed == TrimPrefix(pathUnescape)
        pathReplace == ReplaceFirstSpace(pathTrimmed)
        pathSplited == Split(pathReplace)
        pathLen == Len(pathSplited)
    IN  IF pathLen = 2
        THEN [Path |-> configured, Opaque |-> pathTrimmed]
        ELSE IF pathLen = 3
        THEN [Path |-> pathSplited[1],
              Opaque |-> pathSplited[2] \o <<":">> \o pathSplited[3]]
        ELSE [Path |-> configured, Opaque |-> <<>>]

\* the loop of dialer.go:80-82 over the keys in the order the map yields them
RECURSIVE AddAll(_, _)
AddAll(h, order) ==
    IF order = <<>> THEN h
    ELSE AddAll(HeaderAdd(h, order[1], header[order[1]]), Tail(order))

\* the request is built: host, path, headers, then the path encoding
BuildRequest ==
    /\ pc = "wrapped"
    /\ pc' = "built"
    /\ \E order \in Orders(DOMAIN header) :
         reqHeader' = HeaderSet(HeaderSet(AddAll(<<>>, order),
                                          <<"C", "o", "n", "n", "e", "c", "t", "i", "o", "n">>,
                                          upgrade),
                                <<"U", "p", "g", "r", "a", "d", "e">>, websocket)
    /\ url' = [url EXCEPT !.Host = "dest",
                          !.Path = EncodePath(path).Path,
                          !.Opaque = EncodePath(path).Opaque]
    /\ UNCHANGED <<cfgVars, err, conn, out, connVars>>

\* Request.Write refuses a request target that holds a control character
HasCTL(s) == \E i \in 1..Len(s) : s[i] \in {"NUL", "STX"}

\* req.Write(conn), and on success the ConnRF around the connection
WriteRequest ==
    /\ pc = "built"
    /\ \/ /\ ~HasCTL(url.Opaque)
          /\ pc' = "written" /\ err' = err
          /\ out' = Append(out, [kind |-> "request", URL |-> url,
                                  Header |-> reqHeader])
          /\ First' = TRUE
       \/ /\ pc' = "failed" /\ err' = "write"
          /\ UNCHANGED <<out, First>>
    /\ UNCHANGED <<cfgVars, conn, reqVars, sent, wire, rd, lastRet, connRet,
                   delivered, outcome, validations, together, calls, writes>>

\* NeedsProbe with the early-data setting ignored
NeedsProbeAlways(earlyData) == TRUE

\* transportConfiguration.Ed == 0: dial validates before it returns
NeedsProbe(earlyData) == ~earlyData

\* AfterProbe with the probe's error ignored
AfterProbeIgnoringError(e) == "returned"

\* what dial does with the probe's error: give up, or return the connection
AfterProbe(e) == IF e # "" THEN "failed" ELSE "returned"

\* early-data mode: the connection is returned as soon as it is written
DialReturn ==
    /\ pc = "written"
    /\ ~NeedsProbe(ed)
    /\ pc' = "returned"
    /\ UNCHANGED <<cfgVars, err, conn, reqVars, out, connVars>>

\* ------------------------------------------------------------ ConnRF.Read
\* the caller's buffers: <<len(b), cap(b)>>
Bufs == {<<0, 0>>, <<1, 2>>, <<16, 16>>}

\* bufio.NewReaderSize(c.Conn, len(b)): never below the minimum size
ReaderSize(len) == Max(len, minReadBufferSize)

\* http.ReadResponse on what the reader buffers: whole lines are consumed as
\* far as they go (bufio.Reader.ReadLine; a full buffer with no line end is
\* handed over whole, a trailing CR put back), up to the blank line that ends
\* the headers.  st is "more" (the reader must fill again), "error" (the
\* status line cannot be parsed) or "done" (buf is what is left buffered).
RECURSIVE Advance(_, _, _, _)
Advance(buf, lines, partial, size) ==
    LET i == Index(buf, "n")
        crlf == i > 1 /\ buf[i - 1] = "r"
        content == IF crlf THEN i - 2 ELSE i - 1
        rest == SubSeq(buf, i + 1, Len(buf))
    IN  IF i = 0
        THEN IF Len(buf) >= size
             THEN [st |-> "more", lines |-> lines, partial |-> TRUE,
                   buf |-> IF buf[Len(buf)] = "r" THEN <<"r">> ELSE <<>>]
             ELSE [st |-> "more", lines |-> lines, partial |-> partial, buf |-> buf]
        ELSE IF lines = 0
        THEN IF resp.wellformed
             THEN Advance(rest, 1, FALSE, size)
             ELSE [st |-> "error", lines |-> 1, partial |-> FALSE, buf |-> rest]
        ELSE IF ~partial /\ content = 0
        THEN [st |-> "done", lines |-> lines + 1, partial |-> FALSE, buf |-> rest]
        ELSE Advance(rest, lines + 1, FALSE, size)

\* Drain with the last buffered byte left behind in the reader
DrainOneShort(buffered, cap) ==
    [panic |-> Len(buffered) > cap,
     n |-> IF Len(buffered) > cap \/ buffered = <<>> THEN 0 ELSE Len(buffered) - 1,
     data |-> IF Len(buffered) > cap \/ buffered = <<>> THEN <<>>
              ELSE SubSeq(buffered, 1, Len(buffered) - 1)]

\* reader.Read(b[:reader.Buffered()]): slicing beyond cap(b) panics, else the
\* buffered bytes are copied into b and counted
Drain(buffered, cap) ==
    [panic |-> Len(buffered) > cap,
     n |-> IF Len(buffered) > cap THEN 0 ELSE Len(buffered),
     data |-> IF Len(buffered) > cap THEN <<>> ELSE buffered]

\* FirstResult without the check of status and headers
FirstResultUnchecked(st, buffered, cap) ==
    IF st = "error"
    THEN [panic |-> FALSE, n |-> 0, err |-> "parse", data |-> <<>>]
    ELSE [panic |-> Len(buffered) > cap,
          n |-> IF Len(buffered) > cap THEN 0 ELSE Len(buffered),
          err |-> "",
          data |-> IF Len(buffered) > cap THEN <<>> ELSE buffered]

\* the validating branch's result once the response is read: parse error,
\* unrecognized reply, or the drained bytes
FirstResult(st, buffered, cap) ==
    IF st = "error"
    THEN [panic |-> FALSE, n |-> 0, err |-> "parse", data |-> <<>>]
    ELSE IF ~Recognized(resp)
    THEN [panic |-> FALSE, n |-> 0, err |-> "unrecognized reply", data |-> <<>>]
    ELSE [panic |-> Drain(buffered, cap).panic, n |-> Drain(buffered, cap).n,
          err |-> "", data |-> Drain(buffered, cap).data]

\* PassThrough that reports nothing read
PassThroughEmpty(r) == [r EXCEPT !.n = 0, !.data = <<>>]

\* return c.Conn.Read(b): the underlying connection's result, as it is
PassThrough(r) == r

\* the first branch of Read begins: the flag is cleared, the reader created
ReadBegin(by, b) ==
    /\ First
    /\ ~rd.active
    /\ First' = FALSE
    /\ rd' = [active |-> TRUE, by |-> by, len |-> b[1], cap |-> b[2],
              size |-> ReaderSize(b[1]), buf |-> <<>>, lines |-> 0,
              partial |-> FALSE]
    /\ validations' = validations + 1
    /\ together' = (sent = Len(Stream(resp)))
    /\ UNCHANGED <<cfgVars, err, conn, reqVars, out, sent, wire, lastRet,
                   connRet, delivered, outcome, writes>>

\* dial's zero-length probe: connRF.Read([]byte{})
ProbeBegin ==
    /\ pc = "written"
    /\ NeedsProbe(ed)
    /\ pc' = "probing"
    /\ ReadBegin("dial", <<0, 0>>)
    /\ UNCHANGED calls

\* the caller's Read on a connection still pending
CallerReadFirst ==
    /\ pc = "returned"
    /\ calls < MaxReads
    /\ \E b \in Bufs : ReadBegin("caller", b)
    /\ calls' = calls + 1
    /\ UNCHANGED pc

\* net.Conn.Read into n free bytes: what has arrived, up to n bytes of it.
\* (A shorter read is the run in which the server had sent less by then.)
ConnRead(n) == SubSeq(wire, 1, Min(n, Len(wire)))

\* the reader fills from the connection with one Read of it, the parse goes
\* on, and when the response is read the validating Read returns
Fill ==
    /\ rd.active
    /\ pc \in {"probing", "returned"}
    /\ wire # <<>>
    /\ LET got == ConnRead(rd.size - Len(rd.buf))
           a == Advance(rd.buf \o got, rd.lines, rd.partial, rd.size)
           res == FirstResult(a.st, a.buf, rd.cap)
       IN  /\ wire' = SubSeq(wire, Len(got) + 1, Len(wire))
           /\ IF a.st = "more"
              THEN /\ rd' = [rd EXCEPT !.buf = a.buf, !.lines = a.lines,
                                       !.partial = a.partial]
                   /\ UNCHANGED <<pc, err, lastRet, delivered, outcome>>
              ELSE /\ rd' = NoRead
                   /\ outcome' = IF res.err = "" THEN "ok"
                                 ELSE IF res.err = "parse" THEN "parse"
                                 ELSE "unrecognized"
                   /\ lastRet' = [len |-> rd.len, n |-> res.n, err |-> res.err,
                                   data |-> res.data]
                   /\ delivered' = IF rd.by = "caller"
                                   THEN delivered \o res.data ELSE delivered
                   /\ pc' = IF res.panic THEN "panic"
                            ELSE IF rd.by = "dial" THEN AfterProbe(res.err)
                            ELSE pc
                   /\ err' = IF rd.by = "dial" /\ ~res.panic THEN res.err ELSE err
    /\ UNCHANGED <<cfgVars, conn, reqVars, out, First, sent, connRet,
                   validations, together, calls, writes>>

\* the caller's Read once the flag is cleared: one Read of the connection.
\* A zero-length Read returns at once, any other waits for a byte.
CallerReadRaw ==
    /\ pc = "returned"
    /\ ~First
    /\ ~rd.active
    /\ calls < MaxReads
    /\ \E b \in Bufs :
         /\ b[1] > 0 => wire # <<>>
         /\ connRet' = [len |-> b[1], n |-> Len(ConnRead(b[1])), err |-> "",
                        data |-> ConnRead(b[1])]
         /\ wire' = SubSeq(wire, Len(ConnRead(b[1])) + 1, Len(wire))
         /\ lastRet' = PassThrough(connRet')
         /\ delivered' = delivered \o lastRet'.data
    /\ calls' = calls + 1
    /\ UNCHANGED <<cfgVars, pc, err, conn, reqVars, out, First, sent, rd,
                   outcome, validations, together, writes>>

\* FirstAfterWrite with the flag cleared by the Write
FirstAfterWriteCleared(f) == FALSE

\* what a Write does to c.First: nothing, ConnRF has no Write of its own
FirstAfterWrite(f) == f

\* the caller's Write: ConnRF has no Write of its own, the embedded
\* connection's is used
CallerWrite ==
    /\ pc = "returned"
    /\ writes < MaxWrites
    /\ writes' = writes + 1
    /\ out' = Append(out, [kind |-> "data"])
    /\ First' = FirstAfterWrite(First)
    /\ UNCHANGED <<cfgVars, pc, err, conn, reqVars, sent, wire, rd, lastRet,
                   connRet, delivered, outcome, validations, together, calls>>

\* the server answers the request it received, some bytes at a time
ServerSend ==
    /\ pc \in {"written", "probing", "returned"}
    /\ sent < Len(Stream(resp))
    /\ \E k \in 1..(Len(Stream(resp)) - sent) :
         /\ sent' = sent + k
         /\ wire' = wire \o SubSeq(Stream(resp), sent + 1, sent + k)
    /\ UNCHANGED <<cfgVars, pc, err, conn, reqVars, out, First, rd, lastRet,
                   connRet, delivered, outcome, validations, together, calls,
                   writes>>

Next ==
    \/ DialSystem
    \/ TLSWrap
    \/ BuildRequest
    \/ WriteRequest
    \/ DialReturn
    \/ ProbeBegin
    \/ CallerReadFirst
    \/ Fill
    \/ CallerReadRaw
    \/ CallerWrite
    \/ ServerSend

Spec == Init /\ [][Next]_vars

\* the request-building prefix of the dial, over every path up to MaxPathLen
InitPath == InitWith(AllPaths, SomeHeaders) /\ ed = FALSE /\ tlsMode = "none"
                                            /\ resp.Status = "200 OK"

NextPath == DialSystem \/ TLSWrap \/ BuildRequest \/ WriteRequest

SpecPath == InitPath /\ [][NextPath]_vars

\* the same prefix of the dial, over every header configuration and TLS mode
InitHeader == InitWith(SomePaths, HeaderConfigs) /\ ed = FALSE
                                                 /\ resp.Status = "200 OK"

NextHeader == DialSystem \/ TLSWrap \/ BuildRequest \/ WriteRequest

SpecHeader == InitHeader /\ [][NextHeader]_vars

\* ------------------------------------------------------------------ claims
HeaderLen == Len(HeaderBytes(resp))

\* the payload bytes the server has sent so far
PayloadSent == SubSeq(Stream(resp), HeaderLen + 1, sent)

PayloadSet == {Payload[i] : i \in 1..Len(Payload)}

FailedValidation == outcome \in {"parse", "unrecognized"}

FailureOf(o) == IF o = "parse" THEN "parse" ELSE "unrecognized reply"

\* the response parses, and its status or its Upgrade/Connection headers are wrong
BadReply == resp.wellformed /\ ~Recognized(resp)

\* C1: once the first Read has failed validation, the last completed Read
\* always reports that failure, with no bytes, and no byte is ever delivered.
C1_FailedStaysFailed ==
    FailedValidation =>
        /\ lastRet.err = FailureOf(outcome)
        /\ lastRet.n = 0
        /\ delivered = <<>>

\* C2: in every run in which validation succeeded, the bytes returned to the
\* caller followed by the bytes still on the connection are exactly the
\* payload bytes the server has sent: none lost, none duplicated, in order.
C2_NoPayloadLost ==
    outcome = "ok" => delivered \o wire = PayloadSent

\* C3: without early data, dial has returned a connection only if a whole
\* response was sent by the server, read and validated as a 101 upgrade.
C3_ValidatedBeforeReturn ==
    (~ed /\ pc = "returned") =>
        /\ outcome = "ok"
        /\ validations = 1
        /\ ~First
        /\ sent >= HeaderLen

C3_Witness == ~ed /\ pc = "returned" /\ calls = 0

\* C4: with early data, once the request is written dial can return at once
\* whatever the server has sent, its only step is to return, without a read
\* of the connection, and the returned connection is pending until its
\* first Read.
C4_EarlyDataReturn ==
    /\ [](ed /\ pc = "written" => ENABLED DialReturn)
    /\ [][(ed /\ pc = "written" /\ pc' # pc) =>
            /\ pc' = "returned"
            /\ First'
            /\ validations' = 0
            /\ wire' = wire
            /\ rd' = NoRead]_vars
    /\ []((ed /\ pc = "returned" /\ calls = 0) =>
            First /\ validations = 0 /\ outcome = "none")

C4_Witness == ed /\ pc = "returned" /\ sent = 0 /\ First /\ validations = 0

C6_ValidateOnceBeforeBytes ==
    /\ validations <= 1
    /\ calls >= 1 => validations = 1
    /\ (\E i \in 1..Len(delivered) : delivered[i] \in PayloadSet) => outcome = "ok"

\* C7 as stated: when a valid response and all the payload had arrived before
\* the first Read, and the buffer is at least as long as the payload, that
\* Read returns exactly the payload.
C7_Original ==
    (ed /\ together /\ outcome = "ok" /\ calls = 1 /\ ~rd.active
        /\ lastRet.len >= MaxPayload) =>
        lastRet.n = MaxPayload /\ lastRet.data = Payload

\* C7 amended: in that case the first Read returns without error the first k
\* payload bytes, k <= N being the bytes the reader had buffered past the
\* header terminator, and the other N - k stay on the connection, in order,
\* for the next Reads.
C7_Amended ==
    (ed /\ together /\ outcome = "ok" /\ calls = 1 /\ ~rd.active
        /\ lastRet.len >= MaxPayload) =>
        /\ pc = "returned"
        /\ lastRet.err = ""
        /\ lastRet.n <= MaxPayload
        /\ lastRet.data = SubSeq(Payload, 1, lastRet.n)
        /\ wire = SubSeq(Payload, lastRet.n + 1, MaxPayload)

C7_Witness ==
    /\ ed /\ together /\ outcome = "ok" /\ calls = 1 /\ ~rd.active
    /\ lastRet.len >= MaxPayload
    /\ lastRet.n >= 1

\* C8: on a validated connection a Read is one Read of the underlying
\* connection with the same buffer, its result returned as it is, no
\* response is parsed, and the connection stays validated.
C8_PassThrough ==
    /\ [][(outcome = "ok" /\ pc = "returned" /\ calls' = calls + 1) =>
            /\ lastRet' = connRet'
            /\ connRet'.data = SubSeq(wire, 1, Min(connRet'.len, Len(wire)))
            /\ connRet'.n = Len(connRet'.data)
            /\ connRet'.err = ""
            /\ wire' = SubSeq(wire, connRet'.n + 1, Len(wire))
            /\ delivered' = delivered \o connRet'.data
            /\ validations' = validations
            /\ rd' = NoRead]_vars
    /\ [][outcome = "ok" => (outcome' = "ok" /\ ~First')]_vars

C8_Witness ==
    /\ outcome = "ok" /\ pc = "returned" /\ calls >= 1
    /\ connRet.n > 0 /\ lastRet = connRet

\* the request has been built
Built == url.Host # ""

\* the configured path decoded, stripped of one leading slash
Trimmed(p) == TrimPrefix(QueryUnescape(p))

\* its parts once the first space is replaced by a colon
Parts(p) == Split(ReplaceFirstSpace(Trimmed(p)))

C10_ThreeParts ==
    (Built /\ Len(Parts(path)) = 3) =>
        /\ url.Path = Parts(path)[1]
        /\ url.Opaque = Parts(path)[2] \o <<":">> \o Parts(path)[3]

C10_Witness ==
    /\ Built
    /\ path = <<"/", "a", " ", ":">>
    /\ url.Path = <<"a">>
    /\ url.Opaque = <<":">>

\* the write of the request can succeed
CanWrite == ENABLED (WriteRequest /\ pc' = "written")

\* C11 as stated: with 1 part or with 4 or more parts (a path whose decoding
\* fails has 1 part, the empty one) no opaque component is set, the
\* structural path is the configured path, and the request can be written.
C11_Original ==
    (Built /\ Len(Parts(path)) \notin {2, 3}) =>
        /\ url.Opaque = <<>>
        /\ url.Path = path
        /\ pc = "built" => CanWrite

\* C11 amended: in that case no opaque component is set, the structural path
\* is the configured path, or the literal GET when the configured path is
\* empty, and the request can be written.
C11_Amended ==
    (Built /\ Len(Parts(path)) \notin {2, 3}) =>
        /\ url.Opaque = <<>>
        /\ url.Path = IF path = <<>> THEN <<"G", "E", "T">> ELSE path
        /\ pc = "built" => CanWrite

C11_Witness ==
    /\ pc = "written"
    /\ path = <<"a", ":", ":", ":">>
    /\ Len(Parts(path)) = 4
    /\ url.Path = path /\ url.Opaque = <<>>

\* the request has been written
Written == out # <<>>

\* the headers of the request as it was written
WrittenHeader == out[1].Header

\* C12: every configured key is a key of the written request, letter for
\* letter in the configured casing, so that keys that differ only in casing
\* are different keys of the request.
C12_ConfiguredCasing ==
    Written => \A k \in DOMAIN header : k \in DOMAIN WrittenHeader

ConnectionKey == <<"C", "o", "n", "n", "e", "c", "t", "i", "o", "n">>
UpgradeKey == <<"U", "p", "g", "r", "a", "d", "e">>

\* the written request has value v under key k
Carries(k, v) ==
    /\ k \in DOMAIN WrittenHeader
    /\ \E i \in 1..Len(WrittenHeader[k]) : WrittenHeader[k][i] = v

\* the written request has value v under a key that is k up to letter case
CarriesAnyCase(k, v) ==
    \E x \in DOMAIN WrittenHeader : ToLower(x) = ToLower(k) /\ Carries(x, v)

\* the configured key is Connection or Upgrade, in some casing
Mandatory(k) == ToLower(k) \in {ToLower(ConnectionKey), ToLower(UpgradeKey)}

C14_EmptyPathIsGET ==
    (Built /\ path = <<>>) =>
        /\ url.Path = <<"G", "E", "T">>
        /\ url.Opaque = <<>>
        /\ pc = "built" => CanWrite
        /\ Written => out[1].URL = url

C14_Witness ==
    /\ path = <<>>
    /\ pc = "written"
    /\ out[1].URL.Path = <<"G", "E", "T">>

\* the steps of a dial in their order: from each position, the positions one
\* step can lead to ("panic" is the process crashing in a Read, no step)
StepOrder ==
    { <<"start", "dialed">>, <<"start", "failed">>,
      <<"dialed", "wrapped">>, <<"dialed", "failed">>,
      <<"wrapped", "built">>,
      <<"built", "written">>, <<"built", "failed">>,
      <<"written", "probing">>, <<"written", "returned">>,
      <<"probing", "returned">>, <<"probing", "failed">>,
      <<"probing", "panic">>, <<"returned", "panic">> }

\* how many requests have been written to the connection
RequestsWritten == Cardinality({i \in 1..Len(out) : out[i].kind = "request"})

\* C15: the dial goes through its steps in order and never back; a failed
\* step ends it with an error, with nothing done after and no connection for
\* the caller to use; the first thing written is the request, written once,
\* on an open connection wrapped as configured whose fingerprinted
\* handshake has succeeded; bytes are read off the connection only once the
\* request is written.
C15_StepsInOrder ==
    /\ [][pc' # pc => <<pc, pc'>> \in StepOrder]_vars
    /\ [][pc # "failed"]_vars
    /\ [](pc = "failed" <=> err # "")
    /\ [](pc = "failed" => calls = 0 /\ writes = 0 /\ ~rd.active)
    /\ [](RequestsWritten <= 1)
    /\ [](Written <=> pc \in {"written", "probing", "returned", "panic"}
                      \/ (pc = "failed" /\ err \in {"parse", "unrecognized reply"}))
    /\ [](Written =>
            /\ out[1].kind = "request"
            /\ conn.pconn = "open"
            /\ conn.wrap = (IF tlsMode = "none" THEN "raw" ELSE tlsMode)
            /\ tlsMode = "utls" => conn.handshaken)
    /\ []((validations > 0 \/ rd.active \/ sent > 0) => Written)
    /\ [][Len(wire') < Len(wire) => Written /\ pc \in {"probing", "returned"}]_vars

C15_Witness ==
    /\ pc = "returned" /\ ~ed /\ outcome = "ok"
    /\ tlsMode = "utls" /\ conn.handshaken
    /\ RequestsWritten = 1

\* C16: whatever the length L of the buffer of the validating Read, once the
\* response is validated the Read has returned (the slice of the buffer it
\* drains into exists), it returned at most L bytes, and it put no byte
\* beyond the first L of the caller's buffer.
C16_DrainWithinBuffer ==
    outcome = "ok" =>
        /\ pc # "panic"
        /\ lastRet.n <= lastRet.len
        /\ Len(lastRet.data) <= lastRet.len

\* the validating Read is the only Read made so far
OnlyValidatingRead == calls = (IF ed THEN 1 ELSE 0)

\* C17: once validation has succeeded, and until the next Read, the
\* validating Read has returned, without error, as many bytes as it took off
\* the connection past the header terminator: what its reader had buffered,
\* with no read of the connection after the response was parsed.
C17_ReturnsBuffered ==
    (outcome = "ok" /\ OnlyValidatingRead) =>
        /\ pc # "panic"
        /\ lastRet.err = ""
        /\ lastRet.n = Len(PayloadSent) - Len(wire)

\* the response has a header with this canonical key whose value, lowercased,
\* is v
HasHeader(r, key, v) ==
    \E i \in 1..Len(r.Header) :
        CanonicalKey(r.Header[i][1]) = key /\ ToLower(r.Header[i][2]) = v

\* the three conditions of the claim
Accepted(r) ==
    /\ r.Status = "101 Switching Protocols"
    /\ HasHeader(r, "Upgrade", websocket)
    /\ HasHeader(r, "Connection", upgrade)

\* C18: once a response has been read, validation has succeeded exactly if
\* the response parses, its status is the string 101 Switching Protocols,
\* its Upgrade header lowercased is websocket and its Connection header
\* lowercased is upgrade; a parsed response that fails one of the three is
\* an unrecognized reply; nothing else in the response matters.
C18_ValidIffThree ==
    outcome # "none" =>
        /\ outcome = "ok" <=> (resp.wellformed /\ Accepted(resp))
        /\ outcome = "unrecognized" <=> (resp.wellformed /\ ~Accepted(resp))
        /\ outcome = "parse" <=> ~resp.wellformed

C18_Witness ==
    /\ outcome = "ok"
    /\ Len(resp.Header) = 3
    /\ HeaderGet(resp.Header, "Connection") = upgrade
    /\ HeaderGet(resp.Header, "Upgrade") # websocket

\* C19: a Write of the caller puts its bytes on the connection after the
\* request and changes nothing of the validation state: the flag, the count
\* of validations, its outcome, the reader, the bytes waiting to be read;
\* and a Read on a connection whose flag is set validates, whether or not
\* a Write came before it.
C19_WriteLeavesPending ==
    /\ [][writes' = writes + 1 =>
            /\ Written /\ out[1].kind = "request"
            /\ out' = Append(out, [kind |-> "data"])
            /\ UNCHANGED <<First, validations, outcome, rd, wire, lastRet,
                           delivered, pc>>]_vars
    /\ [][(First /\ calls' = calls + 1) =>
            ~First' /\ validations' = validations + 1 /\ rd'.active]_vars
    /\ []((pc = "returned" /\ ed /\ calls = 0) => First /\ validations = 0)

C19_Witness ==
    /\ ed /\ pc = "returned"
    /\ writes = 1 /\ calls = 0
    /\ First /\ validations = 0
    /\ Len(out) = 2 /\ out[2].kind = "data"

\* C20: when dial has returned an error and the raw connection had been
\* established, the raw connection is closed.
C20_ClosedOnFailure ==
    (pc = "failed" /\ conn.pconn # "none") => conn.pconn = "closed"

====
